---- MODULE Spec2Model ----
(***************************************************************************)
(* Payment and OrderItem entities of the Order aggregate, the Status and   *)
(* Method values of a Payment, and the guard functions (kernel/guard) and  *)
(* the DomainError type (kernel/errs) they are built on.                   *)
(*                                                                         *)
(* Representation                                                          *)
(*   - a Go string is a sequence of one-character strings;                 *)
(*   - a Go pointer is a sequence of length 0 (nil) or 1 (the pointee);    *)
(*   - a Go error is a record with a "kind" field: "nil", "DomainError",   *)
(*     "joinError" (the value errors.Join builds), "wrapError" (the value  *)
(*     fmt.Errorf builds around %w) or "errorString";                      *)
(*   - a value of type any is a record with the reflect.Kind of its        *)
(*     dynamic type and, as a pointer, what it refers to;                  *)
(*   - time.Time is the integer tick read from the wall clock;             *)
(*   - a float64 is the number of halves it is worth, rounded to           *)
(*     MantissaBits significant bits wherever the code converts,           *)
(*     multiplies or subtracts;                                            *)
(*   - a Go int is a two's complement integer of IntBits bits.             *)
(***************************************************************************)
EXTENDS Integers, Sequences, FiniteSets, TLC

VARIABLES
    p,       \* *Payment held by the caller: NilPtr before a successful NewPayment
    clock,   \* last value time.Now().UTC() returned
    last,    \* the last call: operation, arguments, receiver before the call,
             \* returned error, events constructed, clock reads; and whether
             \* every reading of the clock so far was at least the one before
    events,  \* history: every DomainEvent value constructed so far
    okOps,   \* history: the calls that returned a nil error, with their arguments
    call,    \* a call of a function of the kernel: its name, arguments and result
    oi,      \* *OrderItem held by the caller: NilPtr before a successful NewOrderItem
    callers  \* goroutines that share p: the call each is in, its position in it
             \* and its locals

vars == <<p, clock, last, events, okOps, call, oi, callers>>

----------------------------------------------------------------------------
(* Bounds of the model *)

MaxClock == 3

MaxOk == 4

\* how many wrappers are put around an error
MaxDepth == 2

\* how many times Wrap is called on one sentinel
MaxWraps == 2

\* successful calls on one OrderItem, its creation included
MaxItemOk == 3

\* bits of a Go int in the model (64 in the build): wide enough that the
\* quantities MaxItemOk calls reach from the small inputs stay apart from those
\* reached from MaxInt, so that a sum wraps here exactly when it wraps in the
\* build, and that the prices computed from the small inputs need no rounding,
\* as they need none in the build
IntBits == 19

----------------------------------------------------------------------------
(* Pointers and strings *)

NilPtr == <<>>

Ptr(v) == <<v>>

Deref(ptr) == ptr[1]

Str_empty == <<>>

Str_spaces == <<" ", " ", " ">>

Str_tab_nl == <<"\t", "\n">>

Str_order_1 == <<"o", "1">>

Str_order_2 == <<" ", "o", "2", " ">>

Str_txn_1 == <<"T", "1">>

Str_txn_2 == <<"T", " ", "2">>

\* unicode.IsSpace for the Latin-1 range, as strings.TrimSpace uses it
WhiteSpace == {" ", "\t", "\n", "\r", "\f", "U+000B", "U+0085", "U+00A0"}

RECURSIVE TrimLeft(_)
TrimLeft(s) ==
    IF s = <<>> THEN s
    ELSE IF Head(s) \in WhiteSpace THEN TrimLeft(Tail(s)) ELSE s

RECURSIVE TrimRight(_)
TrimRight(s) ==
    IF s = <<>> THEN s
    ELSE IF s[Len(s)] \in WhiteSpace THEN TrimRight(SubSeq(s, 1, Len(s) - 1)) ELSE s

TrimSpace(s) == TrimRight(TrimLeft(s))

----------------------------------------------------------------------------
(* kernel/errs: DomainError *)

NilErr == [kind |-> "nil"]

New(code, message) ==
    [kind |-> "DomainError", Code |-> code, Message |-> message, Err |-> NilErr]

\* Wrap that copies the message but not the code
Wrap_noCode(e, err) ==
    [kind |-> "DomainError", Code |-> "", Message |-> e.Message, Err |-> err]

Wrap(e, err) ==
    [kind |-> "DomainError", Code |-> e.Code, Message |-> e.Message, Err |-> err]

\* the receiver of Wrap after the call, had Wrap set Err on it and returned it
WrapReceiver_inPlace(e, err) == [e EXCEPT !.Err = err]

\* the receiver of Wrap after the call: Wrap assigns none of its fields
WrapReceiver(e, err) == e

Unwrap(e) == e.Err

\* fmt.Errorf("...: %w", err): a *fmt.wrapError around err
Errorf(err) == [kind |-> "wrapError", msg |-> "context", Err |-> err]

\* fmt.Errorf("plain error") / errors.New: an *errorString; id tells one
\* allocation from another
ErrorString(id) == [kind |-> "errorString", id |-> id, msg |-> "plain error"]

\* errors.Join that keeps the first failure only
Join_firstOnly(errs) ==
    LET kept == SelectSeq(errs, LAMBDA e : e # NilErr)
    IN  IF kept = <<>> THEN NilErr ELSE [kind |-> "joinError", errs |-> <<Head(kept)>>]

\* errors.Join: nil when every argument is nil, else a joinError holding the
\* non-nil arguments in order.
Join(errs) ==
    LET kept == SelectSeq(errs, LAMBDA e : e # NilErr)
    IN  IF kept = <<>> THEN NilErr ELSE [kind |-> "joinError", errs |-> kept]

\* errors.As(err, **DomainError): the first *DomainError of the depth-first,
\* pre-order walk of err's tree, as a pointer (NilPtr when there is none).
RECURSIVE errorsAs(_)
RECURSIVE errorsAsList(_)
errorsAs(err) ==
    CASE err.kind = "DomainError" -> Ptr(err)
      [] err.kind = "joinError"   -> errorsAsList(err.errs)
      [] err.kind = "wrapError"   -> errorsAs(err.Err)
      [] OTHER                    -> NilPtr

errorsAsList(errs) ==
    IF errs = <<>> THEN NilPtr
    ELSE LET first == errorsAs(Head(errs))
         IN  IF first # NilPtr THEN first ELSE errorsAsList(Tail(errs))

\* Is that compares the pointers
Is_identity(e, target) == e = target

\* (*DomainError).Is
Is(e, target) ==
    LET domErr == errorsAs(target)
    IN  IF domErr = NilPtr THEN FALSE ELSE e.Code = Deref(domErr).Code

\* errors.Is.  err == target compares the two allocations: a *DomainError that
\* is its target also has its target's code, two errorStrings are one allocation
\* when their id is the same, and the targets tested are never joinErrors or
\* wrapErrors.
RECURSIVE errorsIs(_, _)
errorsIs(err, target) ==
    IF err = NilErr \/ target = NilErr THEN err = target
    ELSE IF err = target THEN TRUE
    ELSE CASE err.kind = "DomainError" ->
                  Is(err, target) \/ (err.Err # NilErr /\ errorsIs(err.Err, target))
           [] err.kind = "joinError" ->
                  \E i \in 1..Len(err.errs) : errorsIs(err.errs[i], target)
           [] err.kind = "wrapError" -> errorsIs(err.Err, target)
           [] OTHER -> FALSE

----------------------------------------------------------------------------
(* kernel/guard and kernel: guard functions, GenerateID *)

\* Must: panic(err) when err is non-nil (value is then the panic value), else x
Must(x, err) ==
    IF err # NilErr THEN [panicked |-> TRUE, value |-> err]
    ELSE [panicked |-> FALSE, value |-> x]

GenerateID == "12345678-1234-5678-1234-567812345678"

\* CheckNotNullOrWhiteSpace that compares with "" without trimming
CheckNotNullOrWhiteSpace_noTrim(value, err) ==
    IF value = <<>> THEN err ELSE NilErr

CheckNotNullOrWhiteSpace(value, err) ==
    IF TrimSpace(value) = <<>> THEN err ELSE NilErr

\* CheckNotZeroOrNegative that lets zero pass
CheckNotZeroOrNegative_zeroPasses(value, err) ==
    IF value < 0 THEN err ELSE NilErr

CheckNotZeroOrNegative(value, err) ==
    IF value <= 0 THEN err ELSE NilErr

\* the untyped nil interface value
UntypedNil == [kind |-> "Invalid", ref |-> NilPtr]

\* a value of dynamic type kind stored in an any; ref is NilPtr for the nil
\* pointer, map, slice, channel or func
AnyOf(kind, ref) == [kind |-> kind, ref |-> ref]

\* the kinds isNil asks rv.IsNil() about
NilableKinds == {"Ptr", "Interface", "Map", "Slice", "Chan", "Func"}

\* isNil that only compares the interface with nil
isNil_untypedOnly(value) == value = UntypedNil

isNil(value) ==
    IF value = UntypedNil THEN TRUE
    ELSE IF value.kind \in NilableKinds THEN value.ref = NilPtr
    ELSE FALSE

\* the kinds reflect.Value.IsNil accepts; on any other kind it panics
ReflectIsNilKinds ==
    {"Chan", "Func", "Interface", "Map", "Ptr", "Slice", "UnsafePointer"}

\* whether isNil(value) panics: it calls rv.IsNil() for the kinds of its switch
isNilPanics(value) ==
    /\ value # UntypedNil
    /\ value.kind \in NilableKinds
    /\ value.kind \notin ReflectIsNilKinds

\* CheckNotNil with the test inverted
CheckNotNil_inverted(value, err) == IF ~isNil(value) THEN err ELSE NilErr

CheckNotNil(value, err) == IF isNil(value) THEN err ELSE NilErr

\* CheckNil that never fails
CheckNil_skipped(value, err) == NilErr

CheckNil(value, err) == IF ~isNil(value) THEN err ELSE NilErr

----------------------------------------------------------------------------
(* payment: Status, Method, sentinel errors *)

StatusPending == 1

StatusAuthorized == 2

StatusRefused == 3

StatusRefunded == 4

StatusCancelled == 5

\* Status.Equals comparing the receiver with itself
Equals_self(s, other) == s = s

\* Status.Equals
Equals(s, other) == s = other

MethodCreditCard == 1

MethodDebitCard == 2

MethodCash == 3

MethodPix == 4

MethodBankTransfer == 5

MethodBancSlip == 6

\* Method.Equals
Method_Equals(m, other) == m = other

ErrInvalidPaymentStatus == New("PAYMENT.INVALID_STATUS", "invalid payment status")

ErrInvalidPaymentMethod == New("PAYMENT.INVALID_METHOD", "invalid payment method")

\* the maps statusToString and methodToString
statusToString ==
    (StatusPending :> "pending") @@ (StatusAuthorized :> "authorized")
    @@ (StatusRefused :> "refused") @@ (StatusRefunded :> "refunded")
    @@ (StatusCancelled :> "cancelled")

methodToString ==
    (MethodCreditCard :> "credit_card") @@ (MethodDebitCard :> "debit_card")
    @@ (MethodCash :> "cash") @@ (MethodPix :> "pix")
    @@ (MethodBankTransfer :> "bank_transfer") @@ (MethodBancSlip :> "banc_slip")

\* Status.String and Method.String
Status_String(s) ==
    IF s \in DOMAIN statusToString THEN statusToString[s] ELSE "unknown"

Method_String(m) ==
    IF m \in DOMAIN methodToString THEN methodToString[m] ELSE "unknown"

\* ParseStatus without the lookup
ParseStatus_noLookup(value) == [out |-> value, err |-> NilErr]

\* ParseStatus; Status{} is 0
ParseStatus(value) ==
    IF value \notin DOMAIN statusToString
    THEN [out |-> 0, err |-> ErrInvalidPaymentStatus]
    ELSE [out |-> value, err |-> NilErr]

\* ParseMethod; Method{} is 0
ParseMethod(value) ==
    IF value \notin DOMAIN methodToString
    THEN [out |-> 0, err |-> ErrInvalidPaymentMethod]
    ELSE [out |-> value, err |-> NilErr]

ErrInvalidOrderID ==
    New("PAYMENT.INVALID_ORDER_ID", "order ID cannot be null or whitespace")

ErrInvalidPaymentAmount ==
    New("PAYMENT.INVALID_AMOUNT", "payment amount must be greater than zero")

ErrInvalidTransactionCode ==
    New("PAYMENT.INVALID_TRANSACTION_CODE", "transaction code cannot be null or whitespace")

ErrTransactionCodeAlreadyDefined ==
    New("PAYMENT.TRANSACTION_CODE_ALREADY_DEFINED", "transaction code has already been defined")

ErrCannotDefineTransactionCodeAfterCompletion ==
    New("PAYMENT.TRANSACTION_CODE_AFTER_COMPLETION",
        "transaction code cannot be defined after payment has been confirmed or refused")

ErrPaymentNotPending ==
    New("PAYMENT.NOT_PENDING", "payment is not in pending status")

ErrTransactionCodeNotDefined ==
    New("PAYMENT.TRANSACTION_CODE_NOT_DEFINED", "transaction code has not been defined yet")

----------------------------------------------------------------------------
(* payment: the Payment entity.  Each operation is a function from the       *)
(* receiver (and the clock values it reads) to a result record:              *)
(*   pay     the receiver after the call (for NewPayment: the pointer         *)
(*           returned),                                                       *)
(*   err     the error returned,                                              *)
(*   emitted the DomainEvent values the call constructed,                     *)
(*   reads   the values time.Now() returned to the call, in order,            *)
(*   panicked whether the call panicked instead of returning: the bodies      *)
(*           call Must nowhere, and what is left is the rv.IsNil() call        *)
(*           behind CheckNotNil and CheckNil.                                  *)
(* The receiver here is the Payment the pointer refers to; CallMethod below   *)
(* is the call through the pointer, which may be nil.                         *)

\* the literals ApprovedEvent{} and RefusedEvent{}: every field at its zero value
ApprovedEvent ==
    [type |-> "ApprovedEvent", PaymentID |-> "", OrderID |-> <<>>, Amount |-> 0,
     TransactionCode |-> NilPtr, DateOccurred |-> 0]

RefusedEvent ==
    [type |-> "RefusedEvent", PaymentID |-> "", OrderID |-> <<>>, Amount |-> 0,
     TransactionCode |-> NilPtr, DateOccurred |-> 0]

\* NewPayment that leaves Status at its zero value
NewPayment_zeroStatus(orderID, amount, method) ==
    LET err == Join(<<CheckNotNullOrWhiteSpace(orderID, ErrInvalidOrderID),
                      CheckNotZeroOrNegative(amount, ErrInvalidPaymentAmount)>>)
    IN  IF err # NilErr
        THEN [pay |-> NilPtr, err |-> err, emitted |-> <<>>, reads |-> <<>>,
              panicked |-> FALSE]
        ELSE [pay |-> Ptr([ID              |-> GenerateID,
                           OrderID         |-> orderID,
                           Amount          |-> amount,
                           Method          |-> method,
                           Status          |-> 0,
                           PaidAt          |-> NilPtr,
                           UpdatedAt       |-> NilPtr,
                           TransactionCode |-> NilPtr]),
              err |-> NilErr, emitted |-> <<>>, reads |-> <<>>,
              panicked |-> FALSE]

NewPayment(orderID, amount, method) ==
    LET err == Join(<<CheckNotNullOrWhiteSpace(orderID, ErrInvalidOrderID),
                      CheckNotZeroOrNegative(amount, ErrInvalidPaymentAmount)>>)
    IN  IF err # NilErr
        THEN [pay |-> NilPtr, err |-> err, emitted |-> <<>>, reads |-> <<>>,
              panicked |-> FALSE]
        ELSE [pay |-> Ptr([ID              |-> GenerateID,
                           OrderID         |-> orderID,
                           Amount          |-> amount,
                           Method          |-> method,
                           Status          |-> StatusPending,
                           PaidAt          |-> NilPtr,
                           UpdatedAt       |-> NilPtr,
                           TransactionCode |-> NilPtr]),
              err |-> NilErr, emitted |-> <<>>, reads |-> <<>>,
              panicked |-> FALSE]

\* the body is empty: the event is dropped
AddDomainEvent(pay, event) == pay

\* updateTimestamp that writes the other timestamp field
updateTimestamp_wrongField(pay, timestamp) == [pay EXCEPT !.PaidAt = Ptr(timestamp)]

\* updateTimestamp that stores nothing
updateTimestamp_dropped(pay, timestamp) == pay

updateTimestamp(pay, timestamp) == [pay EXCEPT !.UpdatedAt = Ptr(timestamp)]

\* checkStatusEqual that never fails
checkStatusEqual_unguarded(pay, other, err) == NilErr

checkStatusEqual(pay, other, err) ==
    IF ~Equals(pay.Status, other) THEN err ELSE NilErr

\* ConfirmPayment that hands its guard error to Must instead of returning it
ConfirmPayment_viaMust(pay, now, timestamp) ==
    LET err == Join(<<checkStatusEqual(pay, StatusPending, ErrPaymentNotPending),
                      CheckNotNil(AnyOf("Ptr", pay.TransactionCode), ErrTransactionCodeNotDefined)>>)
        must == Must(pay, err)
    IN  IF must.panicked
        THEN [pay |-> pay, err |-> err, emitted |-> <<>>, reads |-> <<>>,
              panicked |-> TRUE]
        ELSE [pay |-> AddDomainEvent(
                          updateTimestamp(
                              [pay EXCEPT !.PaidAt = Ptr(now), !.Status = StatusAuthorized],
                              timestamp),
                          ApprovedEvent),
              err |-> NilErr, emitted |-> <<ApprovedEvent>>, reads |-> <<now, timestamp>>,
              panicked |-> FALSE]

\* ConfirmPayment that forgets PaidAt
ConfirmPayment_noPaidAt(pay, now, timestamp) ==
    LET err == Join(<<checkStatusEqual(pay, StatusPending, ErrPaymentNotPending),
                      CheckNotNil(AnyOf("Ptr", pay.TransactionCode), ErrTransactionCodeNotDefined)>>)
    IN  IF err # NilErr
        THEN [pay |-> pay, err |-> err, emitted |-> <<>>, reads |-> <<>>,
              panicked |-> isNilPanics(AnyOf("Ptr", pay.TransactionCode))]
        ELSE [pay |-> AddDomainEvent(
                          updateTimestamp([pay EXCEPT !.Status = StatusAuthorized],
                                          timestamp),
                          ApprovedEvent),
              err |-> NilErr, emitted |-> <<ApprovedEvent>>, reads |-> <<now, timestamp>>,
              panicked |-> isNilPanics(AnyOf("Ptr", pay.TransactionCode))]

\* ConfirmPayment that does not ask for a transaction code
ConfirmPayment_noCodeGuard(pay, now, timestamp) ==
    LET err == Join(<<checkStatusEqual(pay, StatusPending, ErrPaymentNotPending)>>)
    IN  IF err # NilErr
        THEN [pay |-> pay, err |-> err, emitted |-> <<>>, reads |-> <<>>,
              panicked |-> FALSE]
        ELSE [pay |-> AddDomainEvent(
                          updateTimestamp(
                              [pay EXCEPT !.PaidAt = Ptr(now), !.Status = StatusAuthorized],
                              timestamp),
                          ApprovedEvent),
              err |-> NilErr, emitted |-> <<ApprovedEvent>>, reads |-> <<now, timestamp>>,
              panicked |-> FALSE]

ConfirmPayment(pay, now, timestamp) ==
    LET err == Join(<<checkStatusEqual(pay, StatusPending, ErrPaymentNotPending),
                      CheckNotNil(AnyOf("Ptr", pay.TransactionCode), ErrTransactionCodeNotDefined)>>)
    IN  IF err # NilErr
        THEN [pay |-> pay, err |-> err, emitted |-> <<>>, reads |-> <<>>,
              panicked |-> isNilPanics(AnyOf("Ptr", pay.TransactionCode))]
        ELSE [pay |-> AddDomainEvent(
                          updateTimestamp(
                              [pay EXCEPT !.PaidAt = Ptr(now), !.Status = StatusAuthorized],
                              timestamp),
                          ApprovedEvent),
              err |-> NilErr, emitted |-> <<ApprovedEvent>>, reads |-> <<now, timestamp>>,
              panicked |-> isNilPanics(AnyOf("Ptr", pay.TransactionCode))]

\* RefusePayment that stamps PaidAt as ConfirmPayment does
RefusePayment_setsPaidAt(pay, timestamp) ==
    LET err == Join(<<checkStatusEqual(pay, StatusPending, ErrPaymentNotPending),
                      CheckNotNil(AnyOf("Ptr", pay.TransactionCode), ErrTransactionCodeNotDefined)>>)
    IN  IF err # NilErr
        THEN [pay |-> pay, err |-> err, emitted |-> <<>>, reads |-> <<>>,
              panicked |-> isNilPanics(AnyOf("Ptr", pay.TransactionCode))]
        ELSE [pay |-> AddDomainEvent(
                          updateTimestamp(
                              [pay EXCEPT !.PaidAt = Ptr(timestamp), !.Status = StatusRefused],
                              timestamp),
                          RefusedEvent),
              err |-> NilErr, emitted |-> <<RefusedEvent>>, reads |-> <<timestamp>>,
              panicked |-> isNilPanics(AnyOf("Ptr", pay.TransactionCode))]

\* RefusePayment that constructs no event
RefusePayment_noEvent(pay, timestamp) ==
    LET err == Join(<<checkStatusEqual(pay, StatusPending, ErrPaymentNotPending),
                      CheckNotNil(AnyOf("Ptr", pay.TransactionCode), ErrTransactionCodeNotDefined)>>)
    IN  IF err # NilErr
        THEN [pay |-> pay, err |-> err, emitted |-> <<>>, reads |-> <<>>,
              panicked |-> isNilPanics(AnyOf("Ptr", pay.TransactionCode))]
        ELSE [pay |-> updateTimestamp([pay EXCEPT !.Status = StatusRefused], timestamp),
              err |-> NilErr, emitted |-> <<>>, reads |-> <<timestamp>>,
              panicked |-> isNilPanics(AnyOf("Ptr", pay.TransactionCode))]

RefusePayment(pay, timestamp) ==
    LET err == Join(<<checkStatusEqual(pay, StatusPending, ErrPaymentNotPending),
                      CheckNotNil(AnyOf("Ptr", pay.TransactionCode), ErrTransactionCodeNotDefined)>>)
    IN  IF err # NilErr
        THEN [pay |-> pay, err |-> err, emitted |-> <<>>, reads |-> <<>>,
              panicked |-> isNilPanics(AnyOf("Ptr", pay.TransactionCode))]
        ELSE [pay |-> AddDomainEvent(
                          updateTimestamp([pay EXCEPT !.Status = StatusRefused], timestamp),
                          RefusedEvent),
              err |-> NilErr, emitted |-> <<RefusedEvent>>, reads |-> <<timestamp>>,
              panicked |-> isNilPanics(AnyOf("Ptr", pay.TransactionCode))]

\* DefineTransactionCode that does not refresh UpdatedAt
DefineTransactionCode_noTimestamp(pay, code, timestamp) ==
    LET err == Join(<<checkStatusEqual(pay, StatusPending,
                                       ErrCannotDefineTransactionCodeAfterCompletion),
                      CheckNotNullOrWhiteSpace(code, ErrInvalidTransactionCode),
                      CheckNil(AnyOf("Ptr", pay.TransactionCode),
                               ErrTransactionCodeAlreadyDefined)>>)
    IN  IF err # NilErr
        THEN [pay |-> pay, err |-> err, emitted |-> <<>>, reads |-> <<>>,
              panicked |-> isNilPanics(AnyOf("Ptr", pay.TransactionCode))]
        ELSE [pay |-> [pay EXCEPT !.TransactionCode = Ptr(code)],
              err |-> NilErr, emitted |-> <<>>, reads |-> <<timestamp>>,
              panicked |-> isNilPanics(AnyOf("Ptr", pay.TransactionCode))]

\* DefineTransactionCode that assigns the code before it validates
DefineTransactionCode_assignFirst(pay, code, timestamp) ==
    LET err == Join(<<checkStatusEqual(pay, StatusPending,
                                       ErrCannotDefineTransactionCodeAfterCompletion),
                      CheckNotNullOrWhiteSpace(code, ErrInvalidTransactionCode),
                      CheckNil(AnyOf("Ptr", pay.TransactionCode), ErrTransactionCodeAlreadyDefined)>>)
        assigned == [pay EXCEPT !.TransactionCode = Ptr(code)]
    IN  IF err # NilErr
        THEN [pay |-> assigned, err |-> err, emitted |-> <<>>, reads |-> <<>>,
              panicked |-> isNilPanics(AnyOf("Ptr", pay.TransactionCode))]
        ELSE [pay |-> updateTimestamp(assigned, timestamp),
              err |-> NilErr, emitted |-> <<>>, reads |-> <<timestamp>>,
              panicked |-> isNilPanics(AnyOf("Ptr", pay.TransactionCode))]

DefineTransactionCode(pay, code, timestamp) ==
    LET err == Join(<<checkStatusEqual(pay, StatusPending,
                                       ErrCannotDefineTransactionCodeAfterCompletion),
                      CheckNotNullOrWhiteSpace(code, ErrInvalidTransactionCode),
                      CheckNil(AnyOf("Ptr", pay.TransactionCode), ErrTransactionCodeAlreadyDefined)>>)
    IN  IF err # NilErr
        THEN [pay |-> pay, err |-> err, emitted |-> <<>>, reads |-> <<>>,
              panicked |-> isNilPanics(AnyOf("Ptr", pay.TransactionCode))]
        ELSE [pay |-> updateTimestamp([pay EXCEPT !.TransactionCode = Ptr(code)], timestamp),
              err |-> NilErr, emitted |-> <<>>, reads |-> <<timestamp>>,
              panicked |-> isNilPanics(AnyOf("Ptr", pay.TransactionCode))]

\* the value a read through a nil pointer panics with
NilDereference ==
    [kind |-> "runtimeError",
     msg  |-> "invalid memory address or nil pointer dereference"]

\* p.DefineTransactionCode(code), p.ConfirmPayment() or p.RefusePayment() through
\* the pointer recv.  Each begins with p.checkStatusEqual, which reads p.Status:
\* on a nil receiver that read panics.  value is the error returned, or the
\* value of the panic; recv is the pointer with the Payment as the call leaves
\* it, and reads the readings of the clock the call has made
CallMethod(op, recv, code, now, timestamp) ==
    IF recv = NilPtr
    THEN [panicked |-> TRUE, value |-> NilDereference, recv |-> NilPtr,
          reads |-> <<>>]
    ELSE LET r == CASE op = "DefineTransactionCode" ->
                          DefineTransactionCode(Deref(recv), code, timestamp)
                    [] op = "ConfirmPayment" ->
                          ConfirmPayment(Deref(recv), now, timestamp)
                    [] op = "RefusePayment" ->
                          RefusePayment(Deref(recv), timestamp)
         IN  [panicked |-> r.panicked, value |-> r.err, recv |-> Ptr(r.pay),
              reads |-> r.reads]

\* `LOCAL-` + kernel.GenerateID(); the ID is kept as one token of the string
LocalCode == <<"L", "O", "C", "A", "L", "-", GenerateID>>

\* the unexported generateTransactionCode: `inner` holds the result of the
\* DefineTransactionCode call it makes, if it makes one; the error is discarded
generateTransactionCode(pay, timestamp) ==
    IF pay.TransactionCode # NilPtr
    THEN [pay |-> pay, inner |-> <<>>]
    ELSE LET r == DefineTransactionCode(pay, LocalCode, timestamp)
         IN  [pay |-> r.pay, inner |-> <<r>>]

----------------------------------------------------------------------------
(* orderitem: the OrderItem entity.  Each operation is a function from the    *)
(* receiver to a result record: item (the receiver after the call; for        *)
(* NewOrderItem the pointer returned), err, reads (as for Payment).           *)
(* Quantity and units are Go ints: two's complement, IntBits wide here, and    *)
(* += and -= wrap around.  Prices are float64: a float64 is held as the number *)
(* of halves it is worth (12.50 is 25), and every conversion, product and      *)
(* difference is rounded to the nearest value of MantissaBits significant      *)
(* bits, ties to even.  NaN and the infinities are not among the inputs.       *)

MinInt == -(2 ^ (IntBits - 1))

MaxInt == 2 ^ (IntBits - 1) - 1

\* the int a Go int operation yields for the mathematical result v
WrapInt(v) == ((v - MinInt) % (2 ^ IntBits)) + MinInt

\* bits of the significand of a float64: 53 where the int has 64
MantissaBits == IntBits - 11

\* the float64 nearest to v halves: round to nearest, ties to even.  Ulp is
\* the distance between the float64 values next to the magnitude a: the unit u,
\* or the first double of it that leaves MantissaBits bits
RoundFloat64(v) ==
    LET RECURSIVE Ulp(_, _)
        Ulp(a, u) == IF a < (2 ^ MantissaBits) * u THEN u ELSE Ulp(a, 2 * u)
        a == IF v < 0 THEN -v ELSE v
        u == Ulp(a, 1)
        q == a \div u
        r == a % u
        n == IF 2 * r > u \/ (2 * r = u /\ q % 2 = 1) THEN (q + 1) * u ELSE q * u
    IN  IF v < 0 THEN -n ELSE n

\* float64(quantity)
ToFloat64(v) == RoundFloat64(2 * v)

\* x * y of two float64, one of them a whole number
MulFloat64(x, y) == RoundFloat64((x * y) \div 2)

\* x - y of two float64
SubFloat64(x, y) == RoundFloat64(x - y)

ErrInvalidProductID ==
    New("ORDER_ITEM.INVALID_PRODUCT_ID", "product ID cannot be null or whitespace")

ErrInvalidProductName ==
    New("ORDER_ITEM.INVALID_PRODUCT_NAME", "product name cannot be null or whitespace")

ErrInvalidUnitPrice ==
    New("ORDER_ITEM.INVALID_UNIT_PRICE", "unit price must be greater than zero")

ErrInvalidQuantity ==
    New("ORDER_ITEM.INVALID_QUANTITY", "quantity must be greater than zero")

ErrNegativeDiscount ==
    New("ORDER_ITEM.NEGATIVE_DISCOUNT", "discount cannot be negative")

ErrDiscountExceedsUnitPrice ==
    New("ORDER_ITEM.DISCOUNT_EXCEEDS_PRICE", "discount cannot be greater than unit price")

ErrInvalidUnits ==
    New("ORDER_ITEM.INVALID_UNITS", "units cannot be zero or negative")

ErrInsufficientQuantity ==
    New("ORDER_ITEM.INSUFFICIENT_QUANTITY",
        "units to remove cannot be greater than or equal to current quantity")

\* calculateTotalPrice that leaves the discount out
OrderItem_calculateTotalPrice_noDiscount(item) ==
    [item EXCEPT !.TotalPrice = MulFloat64(item.UnitPrice, ToFloat64(item.Quantity))]

\* (*OrderItem).calculateTotalPrice
OrderItem_calculateTotalPrice(item) ==
    [item EXCEPT !.TotalPrice =
        SubFloat64(MulFloat64(item.UnitPrice, ToFloat64(item.Quantity)),
                   item.DiscountApplied)]

\* (*OrderItem).updateTimestamp
OrderItem_updateTimestamp(item, timestamp) ==
    [item EXCEPT !.UpdatedAt = Ptr(timestamp)]

NewOrderItem(productID, productName, unitPrice, quantity, now) ==
    LET err == Join(<<CheckNotNullOrWhiteSpace(productID, ErrInvalidProductID),
                      CheckNotNullOrWhiteSpace(productName, ErrInvalidProductName),
                      CheckNotZeroOrNegative(unitPrice, ErrInvalidUnitPrice),
                      CheckNotZeroOrNegative(ToFloat64(quantity), ErrInvalidQuantity)>>)
    IN  IF err # NilErr
        THEN [item |-> NilPtr, err |-> err, reads |-> <<>>]
        ELSE [item |-> Ptr(OrderItem_calculateTotalPrice(
                               [ID              |-> GenerateID,
                                ProductID       |-> productID,
                                ProductName     |-> productName,
                                UnitPrice       |-> unitPrice,
                                Quantity        |-> quantity,
                                DiscountApplied |-> 0,
                                TotalPrice      |-> 0,
                                CreatedAt       |-> now,
                                UpdatedAt       |-> NilPtr])),
              err |-> NilErr, reads |-> <<now>>]

\* ApplyDiscount that assigns the discount before it validates
ApplyDiscount_assignFirst(item, discount, timestamp) ==
    LET assigned == OrderItem_calculateTotalPrice([item EXCEPT !.DiscountApplied = discount])
    IN  IF discount < 0
        THEN [item |-> assigned, err |-> ErrNegativeDiscount, reads |-> <<>>]
        ELSE IF discount > item.UnitPrice
        THEN [item |-> assigned, err |-> ErrDiscountExceedsUnitPrice, reads |-> <<>>]
        ELSE [item |-> OrderItem_updateTimestamp(assigned, timestamp),
              err |-> NilErr, reads |-> <<timestamp>>]

ApplyDiscount(item, discount, timestamp) ==
    IF discount < 0
    THEN [item |-> item, err |-> ErrNegativeDiscount, reads |-> <<>>]
    ELSE IF discount > item.UnitPrice
    THEN [item |-> item, err |-> ErrDiscountExceedsUnitPrice, reads |-> <<>>]
    ELSE [item |-> OrderItem_updateTimestamp(
                       OrderItem_calculateTotalPrice(
                           [item EXCEPT !.DiscountApplied = discount]),
                       timestamp),
          err |-> NilErr, reads |-> <<timestamp>>]

AddUnits(item, units, timestamp) ==
    IF units <= 0
    THEN [item |-> item, err |-> ErrInvalidUnits, reads |-> <<>>]
    ELSE [item |-> OrderItem_updateTimestamp(
                       OrderItem_calculateTotalPrice(
                           [item EXCEPT !.Quantity = WrapInt(item.Quantity + units)]),
                       timestamp),
          err |-> NilErr, reads |-> <<timestamp>>]

RemoveUnits(item, units, timestamp) ==
    IF units <= 0
    THEN [item |-> item, err |-> ErrInvalidUnits, reads |-> <<>>]
    ELSE IF units >= item.Quantity
    THEN [item |-> item, err |-> ErrInsufficientQuantity, reads |-> <<>>]
    ELSE [item |-> OrderItem_updateTimestamp(
                       OrderItem_calculateTotalPrice(
                           [item EXCEPT !.Quantity = WrapInt(item.Quantity - units)]),
                       timestamp),
          err |-> NilErr, reads |-> <<timestamp>>]

UpdateUnitPrice(item, value, timestamp) ==
    IF value <= 0
    THEN [item |-> item, err |-> ErrInvalidUnitPrice, reads |-> <<>>]
    ELSE [item |-> OrderItem_updateTimestamp(
                       OrderItem_calculateTotalPrice([item EXCEPT !.UnitPrice = value]),
                       timestamp),
          err |-> NilErr, reads |-> <<timestamp>>]

\* Equals that compares every field
OrderItem_Equals_allFields(recv, other) ==
    IF other = NilPtr
    THEN [panicked |-> FALSE, value |-> FALSE]
    ELSE IF recv = NilPtr
         THEN [panicked |-> TRUE, value |-> NilDereference]
         ELSE [panicked |-> FALSE, value |-> Deref(recv) = Deref(other)]

\* (*OrderItem).Equals: the receiver recv and other are pointers.  The nil test
\* is on other only; with other non-nil, oi.ID is read through the receiver, and
\* on a nil receiver that read panics.  value is the bool returned, or the value
\* of the panic
OrderItem_Equals(recv, other) ==
    IF other = NilPtr
    THEN [panicked |-> FALSE, value |-> FALSE]
    ELSE IF recv = NilPtr
         THEN [panicked |-> TRUE, value |-> NilDereference]
         ELSE [panicked |-> FALSE, value |-> Deref(recv).ID = Deref(other).ID]

----------------------------------------------------------------------------
(* Inputs the caller may supply *)

OrderIDs == {Str_empty, Str_spaces, Str_order_1, Str_order_2}

\* -5.0, 0, 0.50 and 50.0, in halves as every float64
Amounts == {-10, 0, 1, 100}

\* the six declared methods and the zero value Method{}
Methods == 0..MethodBancSlip

Codes == {Str_empty, Str_tab_nl, Str_txn_1, Str_txn_2}

NoArgs == [orderID |-> <<>>, amount |-> 0, method |-> 0, code |-> <<>>]

\* no function of the kernel has been called
NoCall == [fn |-> "none", done |-> FALSE]

\* the operations that move the status, and those that write to the receiver
Transitions == {"ConfirmPayment", "RefusePayment"}

Mutations == {"DefineTransactionCode", "ConfirmPayment", "RefusePayment"}

\* the goroutines that may hold the same *Payment
Callers == {"c1", "c2"}

\* a goroutine that has not called yet; overlap records whether a call of its
\* ran while the call of another goroutine was in progress
Idle == [op |-> "none", pc |-> "idle", code |-> <<>>, err |-> NilErr,
         pre |-> NilPtr, reads |-> <<>>, overlap |-> FALSE]

\* the codes the goroutines pass to DefineTransactionCode
RaceCodes == {Str_txn_1, Str_txn_2}

\* the values time.Now().UTC() may return: UTC() strips the monotonic reading,
\* so what is stored is the wall clock, which may stand still or be set back
\* between two reads
Now == 1..MaxClock

\* the readings, taken after `before` was read, never went back
Monotone(before, reads) ==
    \A i \in 1..Len(reads) :
        (IF i = 1 THEN before ELSE reads[i - 1]) <= reads[i]

----------------------------------------------------------------------------
(* The state machine: one action per exported operation *)

Init ==
    /\ p = NilPtr
    /\ clock = 1
    /\ last = [op |-> "none", args |-> NoArgs, pre |-> NilPtr, err |-> NilErr,
               emitted |-> <<>>, reads |-> <<>>, monotone |-> TRUE,
               panicked |-> FALSE]
    /\ events = <<>>
    /\ okOps = <<>>
    /\ oi = NilPtr
    /\ callers = [c \in Callers |-> Idle]
    /\ call = NoCall

\* what every call leaves behind, given its result record r
Returned(op, args, r) ==
    /\ last' = [op |-> op, args |-> args, pre |-> p, err |-> r.err,
                emitted |-> r.emitted, reads |-> r.reads,
                monotone |-> last.monotone /\ Monotone(clock, r.reads),
                panicked |-> r.panicked]
    /\ clock' = IF r.reads = <<>> THEN clock ELSE r.reads[Len(r.reads)]
    /\ events' = events \o r.emitted
    /\ okOps' = IF r.err = NilErr THEN Append(okOps, [op |-> op, args |-> args]) ELSE okOps
    /\ UNCHANGED <<call, oi, callers>>

DoNewPayment ==
    /\ p = NilPtr
    /\ Len(okOps) < MaxOk
    /\ \E orderID \in OrderIDs, amount \in Amounts, method \in Methods :
          LET r == NewPayment(orderID, amount, method)
          IN  /\ p' = r.pay
              /\ Returned("NewPayment",
                          [NoArgs EXCEPT !.orderID = orderID, !.amount = amount,
                                         !.method = method], r)

DoDefineTransactionCode ==
    /\ p # NilPtr
    /\ Len(okOps) < MaxOk
    /\ \E code \in Codes, timestamp \in Now :
          LET r == DefineTransactionCode(Deref(p), code, timestamp)
          IN  /\ p' = Ptr(r.pay)
              /\ Returned("DefineTransactionCode", [NoArgs EXCEPT !.code = code], r)

DoConfirmPayment ==
    /\ p # NilPtr
    /\ Len(okOps) < MaxOk
    /\ \E now \in Now :
          \E timestamp \in Now :
              LET r == ConfirmPayment(Deref(p), now, timestamp)
              IN  /\ p' = Ptr(r.pay)
                  /\ Returned("ConfirmPayment", NoArgs, r)

DoRefusePayment ==
    /\ p # NilPtr
    /\ Len(okOps) < MaxOk
    /\ \E timestamp \in Now :
          LET r == RefusePayment(Deref(p), timestamp)
          IN  /\ p' = Ptr(r.pay)
              /\ Returned("RefusePayment", NoArgs, r)

Next ==
    \/ DoNewPayment
    \/ DoDefineTransactionCode
    \/ DoConfirmPayment
    \/ DoRefusePayment

Spec == Init /\ [][Next]_vars

\* The package with its unexported method: generateTransactionCode has no caller
\* in the repository, so SpecPkg over-approximates what the exported operations
\* reach.  The DefineTransactionCode call it makes is recorded as such.
DoGenerateTransactionCode ==
    /\ p # NilPtr
    /\ Len(okOps) < MaxOk
    /\ \E timestamp \in Now :
          LET g == generateTransactionCode(Deref(p), timestamp)
          IN  IF g.inner = <<>>
              THEN UNCHANGED vars
              ELSE /\ p' = Ptr(g.pay)
                   /\ Returned("DefineTransactionCode",
                               [NoArgs EXCEPT !.code = LocalCode], g.inner[1])

NextPkg ==
    \/ Next
    \/ DoGenerateTransactionCode

SpecPkg == Init /\ [][NextPkg]_vars

----------------------------------------------------------------------------
(* Goroutines sharing one *Payment.  Payment holds no lock, so a call of       *)
(* DefineTransactionCode, ConfirmPayment or RefusePayment by one goroutine     *)
(* proceeds statement by statement between the statements of another's:        *)
(* reading the clock into a local and storing the local into a field are two    *)
(* statements.  The guard is one statement; its two reads of the receiver are   *)
(* taken together, which loses no outcome: Status only leaves Pending and       *)
(* TransactionCode only leaves nil, and no Status is written before the first   *)
(* TransactionCode is.  NewPayment returns the pointer the goroutines share,    *)
(* so it runs before any of their calls; until the first of them calls, the     *)
(* creator may also call DefineTransactionCode on it, with no call to overlap.  *)

\* the guard of the transitions without the status check
transitionGuard_codeOnly(pay) ==
    Join(<<CheckNotNil(AnyOf("Ptr", pay.TransactionCode), ErrTransactionCodeNotDefined)>>)

\* the guard ConfirmPayment and RefusePayment both start with
transitionGuard(pay) ==
    Join(<<checkStatusEqual(pay, StatusPending, ErrPaymentNotPending),
           CheckNotNil(AnyOf("Ptr", pay.TransactionCode), ErrTransactionCodeNotDefined)>>)

\* the guard DefineTransactionCode starts with
defineGuard(pay, code) ==
    Join(<<checkStatusEqual(pay, StatusPending,
                            ErrCannotDefineTransactionCodeAfterCompletion),
           CheckNotNullOrWhiteSpace(code, ErrInvalidTransactionCode),
           CheckNil(AnyOf("Ptr", pay.TransactionCode), ErrTransactionCodeAlreadyDefined)>>)

\* no goroutine has called yet: the payment is still its creator's alone
AllIdle == \A c \in Callers : callers[c].pc = "idle"

\* c is inside a call
Running(c) == callers[c].pc \notin {"idle", "done"}

NoneRunning == \A c \in Callers : ~Running(c)

\* c moves to pc, its locals changed as `locals` says
Goto(c, pc, locals) ==
    callers' = [callers EXCEPT ![c] = [locals EXCEPT !.pc = pc]]

\* c reads the clock into a local
ReadClock(c, pc, reading) ==
    /\ clock' = reading
    /\ last' = [last EXCEPT !.monotone = @ /\ clock <= reading]
    /\ Goto(c, pc, [callers[c] EXCEPT !.reads = Append(@, reading)])

\* the payment the goroutines share is created before any of them calls
RaceNewPayment ==
    /\ AllIdle
    /\ p = NilPtr
    /\ Len(okOps) < MaxOk
    /\ LET r == NewPayment(Str_order_1, 100, MethodPix)
       IN  /\ p' = r.pay
           /\ Returned("NewPayment",
                       [NoArgs EXCEPT !.orderID = Str_order_1, !.amount = 100,
                                      !.method = MethodPix], r)

\* a goroutine enters DefineTransactionCode, ConfirmPayment or RefusePayment;
\* each goroutine makes one call
RaceCall ==
    /\ p # NilPtr
    /\ Len(okOps) < MaxOk
    /\ \E c \in Callers, op \in Mutations, code \in RaceCodes :
          /\ callers[c].pc = "idle"
          /\ op # "DefineTransactionCode" => code = Str_txn_1
          /\ callers' =
                [d \in Callers |->
                    IF d = c
                    THEN [op |-> op, pc |-> "guard", code |-> code, err |-> NilErr,
                          pre |-> p, reads |-> <<>>,
                          overlap |-> ~NoneRunning]
                    ELSE [callers[d] EXCEPT !.overlap = @ \/ Running(d)]]
    /\ UNCHANGED <<p, clock, last, events, okOps, call, oi>>

\* if err := errors.Join(...); err != nil { return err }
RaceGuard ==
    /\ \E c \in Callers :
          /\ callers[c].pc = "guard"
          /\ LET err == IF callers[c].op = "DefineTransactionCode"
                        THEN defineGuard(Deref(p), callers[c].code)
                        ELSE transitionGuard(Deref(p))
             IN  IF err # NilErr
                 THEN Goto(c, "return", [callers[c] EXCEPT !.err = err])
                 ELSE IF callers[c].op = "DefineTransactionCode"
                 THEN Goto(c, "code", callers[c])
                 ELSE IF callers[c].op = "ConfirmPayment"
                 THEN Goto(c, "now", callers[c])
                 ELSE Goto(c, "status", callers[c])
    /\ UNCHANGED <<p, clock, last, events, okOps, call, oi>>

\* p.TransactionCode = &code
RaceCode ==
    /\ \E c \in Callers :
          /\ callers[c].pc = "code"
          /\ p' = Ptr([Deref(p) EXCEPT !.TransactionCode = Ptr(callers[c].code)])
          /\ Goto(c, "timestamp", callers[c])
    /\ UNCHANGED <<clock, last, events, okOps, call, oi>>

\* now := time.Now().UTC()
RaceNow ==
    /\ \E c \in Callers, now \in Now :
          /\ callers[c].pc = "now"
          /\ ReadClock(c, "paidAt", now)
    /\ UNCHANGED <<p, events, okOps, call, oi>>

\* p.PaidAt = &now
RacePaidAt ==
    /\ \E c \in Callers :
          /\ callers[c].pc = "paidAt"
          /\ p' = Ptr([Deref(p) EXCEPT !.PaidAt = Ptr(callers[c].reads[1])])
          /\ Goto(c, "status", callers[c])
    /\ UNCHANGED <<clock, last, events, okOps, call, oi>>

\* p.Status = StatusAuthorized / p.Status = StatusRefused
RaceStatus ==
    /\ \E c \in Callers :
          /\ callers[c].pc = "status"
          /\ p' = Ptr([Deref(p) EXCEPT !.Status =
                          IF callers[c].op = "ConfirmPayment"
                          THEN StatusAuthorized ELSE StatusRefused])
          /\ Goto(c, "timestamp", callers[c])
    /\ UNCHANGED <<clock, last, events, okOps, call, oi>>

\* updateTimestamp: timestamp := time.Now().UTC()
RaceTimestamp ==
    /\ \E c \in Callers, timestamp \in Now :
          /\ callers[c].pc = "timestamp"
          /\ ReadClock(c, "updatedAt", timestamp)
    /\ UNCHANGED <<p, events, okOps, call, oi>>

\* updateTimestamp: p.UpdatedAt = &timestamp
RaceUpdatedAt ==
    /\ \E c \in Callers :
          /\ callers[c].pc = "updatedAt"
          /\ p' = Ptr(updateTimestamp(Deref(p),
                                      callers[c].reads[Len(callers[c].reads)]))
          /\ IF callers[c].op = "DefineTransactionCode"
             THEN Goto(c, "return", callers[c])
             ELSE Goto(c, "event", callers[c])
    /\ UNCHANGED <<clock, last, events, okOps, call, oi>>

\* p.AddDomainEvent(ApprovedEvent{}) / p.AddDomainEvent(RefusedEvent{})
RaceEvent ==
    /\ \E c \in Callers :
          LET event == IF callers[c].op = "ConfirmPayment"
                       THEN ApprovedEvent ELSE RefusedEvent
          IN  /\ callers[c].pc = "event"
              /\ p' = Ptr(AddDomainEvent(Deref(p), event))
              /\ events' = Append(events, event)
              /\ Goto(c, "return", callers[c])
    /\ UNCHANGED <<clock, last, okOps, call, oi>>

\* return err / return nil: the caller sees the result
RaceReturn ==
    /\ \E c \in Callers :
          LET args == [NoArgs EXCEPT !.code = callers[c].code]
          IN  /\ callers[c].pc = "return"
              /\ last' = [op |-> callers[c].op, args |-> args,
                          pre |-> callers[c].pre, err |-> callers[c].err,
                          emitted |-> IF callers[c].err # NilErr
                                         \/ callers[c].op = "DefineTransactionCode"
                                      THEN <<>>
                                      ELSE IF callers[c].op = "ConfirmPayment"
                                      THEN <<ApprovedEvent>> ELSE <<RefusedEvent>>,
                          reads |-> callers[c].reads,
                          monotone |-> last.monotone, panicked |-> FALSE]
              /\ okOps' = IF callers[c].err = NilErr
                          THEN Append(okOps, [op |-> callers[c].op, args |-> args])
                          ELSE okOps
              /\ Goto(c, "done", callers[c])
    /\ UNCHANGED <<p, clock, events, call, oi>>

NextRace ==
    \/ RaceNewPayment
    \/ AllIdle /\ DoDefineTransactionCode
    \/ RaceCall
    \/ RaceGuard
    \/ RaceCode
    \/ RaceNow
    \/ RacePaidAt
    \/ RaceStatus
    \/ RaceTimestamp
    \/ RaceUpdatedAt
    \/ RaceEvent
    \/ RaceReturn

SpecRace == Init /\ [][NextRace]_vars

----------------------------------------------------------------------------
(* Calls of the functions of the kernel (errs, guard, GenerateID) and of       *)
(* NewPayment on their own: `call` holds the arguments, and after the call      *)
(* (done) the result.  The Payment of the state machine above is not involved.  *)

PaymentUntouched == UNCHANGED <<p, clock, last, events, okOps, oi, callers>>

\* two separate calls of NewPayment
NewPaymentCalls ==
    {[fn |-> "NewPayment", done |-> FALSE, first |-> a, second |-> b, out |-> <<>>] :
        a, b \in [orderID : OrderIDs, amount : Amounts, method : Methods]}

DoNewPaymentTwice ==
    /\ call.fn = "NewPayment"
    /\ ~call.done
    /\ call' = [call EXCEPT
                  !.done = TRUE,
                  !.out = <<NewPayment(call.first.orderID, call.first.amount,
                                       call.first.method),
                            NewPayment(call.second.orderID, call.second.amount,
                                       call.second.method)>>]
    /\ PaymentUntouched

\* errors of the errs tests: a sentinel, another DomainError with its code and a
\* different message, a DomainError with another code, a plain error
TestSentinel == New("TEST.CODE", "test message")

TestSentinelCopy == New("TEST.CODE", "different message")

OtherSentinel == New("OTHER.CODE", "test message")

PlainErr == ErrorString(1)

\* the ways a caller wraps an error x once more
Wrappers == {"Errorf", "JoinBefore", "JoinAfter", "WrapTest", "WrapOther"}

ApplyWrapper(w, x) ==
    CASE w = "Errorf"     -> Errorf(x)
      [] w = "JoinBefore" -> Join(<<x, PlainErr>>)
      [] w = "JoinAfter"  -> Join(<<OtherSentinel, x>>)
      [] w = "WrapTest"   -> Wrap(TestSentinel, x)
      [] w = "WrapOther"  -> Wrap(OtherSentinel, x)

\* x with the wrappers of ctx around it, the first of ctx outermost
RECURSIVE Embed(_, _)
Embed(ctx, x) ==
    IF ctx = <<>> THEN x ELSE ApplyWrapper(Head(ctx), Embed(Tail(ctx), x))

Contexts == UNION {[1..n -> Wrappers] : n \in 0..MaxDepth}

\* e.Is(target)
IsCalls ==
    {[fn |-> "Is", done |-> FALSE, e |-> e, target |-> Embed(ctx, inner), out |-> FALSE] :
        e \in {TestSentinel, TestSentinelCopy, OtherSentinel, Wrap(TestSentinel, PlainErr)},
        ctx \in Contexts,
        inner \in {NilErr, PlainErr, TestSentinel, TestSentinelCopy, OtherSentinel}}

DoIs ==
    /\ call.fn = "Is"
    /\ ~call.done
    /\ call' = [call EXCEPT !.done = TRUE, !.out = Is(call.e, call.target)]
    /\ PaymentUntouched

\* errors.Is(err, s), err being s.Wrap(cause) with the wrappers of ctx around it
ErrorsIsCalls ==
    {[fn |-> "errors.Is", done |-> FALSE, s |-> s, cause |-> c, ctx |-> ctx,
      err |-> NilErr, out |-> FALSE] :
        s \in {TestSentinel, OtherSentinel, ErrPaymentNotPending},
        c \in {NilErr, PlainErr, OtherSentinel, Errorf(PlainErr)},
        ctx \in Contexts}

DoErrorsIs ==
    /\ call.fn = "errors.Is"
    /\ ~call.done
    /\ LET err == Embed(call.ctx, Wrap(call.s, call.cause))
       IN  call' = [call EXCEPT !.done = TRUE, !.err = err, !.out = errorsIs(err, call.s)]
    /\ PaymentUntouched

\* sentinel.Wrap(cause), up to MaxWraps times on the same package-level sentinel
WrapCauses ==
    {NilErr, PlainErr, TestSentinel, Errorf(PlainErr), Join(<<OtherSentinel, PlainErr>>)}

WrapCalls ==
    {[fn |-> "Wrap", done |-> FALSE, orig |-> s, sentinel |-> s, cause |-> NilErr,
      out |-> NilErr, unwrapped |-> NilErr, n |-> 0] :
        s \in {TestSentinel, OtherSentinel, ErrPaymentNotPending, ErrInvalidOrderID}}

DoWrap ==
    /\ call.fn = "Wrap"
    /\ call.n < MaxWraps
    /\ \E cause \in WrapCauses :
          LET out == Wrap(call.sentinel, cause)
          IN  call' = [call EXCEPT
                         !.done = TRUE,
                         !.cause = cause,
                         !.out = out,
                         !.unwrapped = Unwrap(out),
                         !.sentinel = WrapReceiver(call.sentinel, cause),
                         !.n = call.n + 1]
    /\ PaymentUntouched

\* Must(x, err)
MustCalls ==
    {[fn |-> "Must", done |-> FALSE, x |-> x, err |-> e,
      out |-> [panicked |-> FALSE, value |-> <<>>]] :
        x \in {Str_txn_1},
        e \in {NilErr, PlainErr, TestSentinel}}

DoMust ==
    /\ call.fn = "Must"
    /\ ~call.done
    /\ call' = [call EXCEPT !.done = TRUE, !.out = Must(call.x, call.err)]
    /\ PaymentUntouched

\* method calls through the pointers a caller may hold: the nil NewPayment
\* returns with an error, and a Payment it has created
MethodCalls ==
    {[fn |-> op, done |-> FALSE, pre |-> recv, recv |-> recv, code |-> Str_txn_1,
      reads |-> <<>>, out |-> [panicked |-> FALSE, value |-> <<>>]] :
        op \in Mutations,
        recv \in {NilPtr, NewPayment(Str_order_1, 100, MethodPix).pay}}

\* the call changes the Payment behind its receiver and reads the clock, as the
\* method does; pre keeps the receiver as it was before the call
DoMethod ==
    /\ call.fn \in Mutations
    /\ ~call.done
    /\ \E now \in Now, timestamp \in Now :
          LET r == CallMethod(call.fn, call.recv, call.code, now, timestamp)
          IN  /\ call' = [call EXCEPT
                             !.done = TRUE,
                             !.recv = r.recv,
                             !.reads = r.reads,
                             !.out = [panicked |-> r.panicked, value |-> r.value]]
              /\ clock' = IF r.reads = <<>> THEN clock ELSE r.reads[Len(r.reads)]
              /\ last' = [last EXCEPT
                             !.monotone = last.monotone /\ Monotone(clock, r.reads)]
    /\ UNCHANGED <<p, events, okOps, oi, callers>>

\* the ints given to ParseStatus and ParseMethod
ParseInputs == (-2..8) \cup {MinInt, MaxInt}

ParseStatusCalls ==
    {[fn |-> "ParseStatus", done |-> FALSE, int |-> v, out |-> 0, err |-> NilErr,
      str |-> ""] : v \in ParseInputs}

DoParseStatus ==
    /\ call.fn = "ParseStatus"
    /\ ~call.done
    /\ LET r == ParseStatus(call.int)
       IN  call' = [call EXCEPT !.done = TRUE, !.out = r.out, !.err = r.err,
                                !.str = Status_String(r.out)]
    /\ PaymentUntouched

ParseMethodCalls ==
    {[fn |-> "ParseMethod", done |-> FALSE, int |-> v, out |-> 0, err |-> NilErr,
      str |-> ""] : v \in ParseInputs}

DoParseMethod ==
    /\ call.fn = "ParseMethod"
    /\ ~call.done
    /\ LET r == ParseMethod(call.int)
       IN  call' = [call EXCEPT !.done = TRUE, !.out = r.out, !.err = r.err,
                                !.str = Method_String(r.out)]
    /\ PaymentUntouched

\* values a caller may pass as any: the untyped nil; nil and non-nil pointers,
\* maps, slices, channels and funcs; strings (empty or not), numbers, structs;
\* the nil unsafe.Pointer.  reflect.ValueOf never reports the kind Interface.
AnyValues ==
    {UntypedNil}
    \cup {AnyOf(k, r) : k \in {"Ptr", "Map", "Slice", "Chan", "Func"},
                        r \in {NilPtr, Ptr(Str_txn_1)}}
    \cup {AnyOf("String", Ptr(s)) : s \in {Str_empty, Str_txn_1}}
    \cup {AnyOf("Float64", Ptr(0)), AnyOf("Struct", Ptr(NoArgs)),
          AnyOf("UnsafePointer", NilPtr)}

\* CheckNotNil(value, err) and CheckNil(value, err) on the same arguments
CheckNilCalls ==
    {[fn |-> "CheckNil", done |-> FALSE, value |-> v, err |-> e,
      notNil |-> NilErr, nil |-> NilErr] :
        v \in AnyValues,
        e \in {NilErr, TestSentinel, ErrTransactionCodeNotDefined,
               ErrTransactionCodeAlreadyDefined, PlainErr}}

DoCheckNil ==
    /\ call.fn = "CheckNil"
    /\ ~call.done
    /\ call' = [call EXCEPT
                  !.done = TRUE,
                  !.notNil = CheckNotNil(call.value, call.err),
                  !.nil = CheckNil(call.value, call.err)]
    /\ PaymentUntouched

InitKernel ==
    /\ p = NilPtr
    /\ clock = 1
    /\ last = [op |-> "none", args |-> NoArgs, pre |-> NilPtr, err |-> NilErr,
               emitted |-> <<>>, reads |-> <<>>, monotone |-> TRUE,
               panicked |-> FALSE]
    /\ events = <<>>
    /\ okOps = <<>>
    /\ oi = NilPtr
    /\ callers = [c \in Callers |-> Idle]
    /\ call \in NewPaymentCalls \cup IsCalls \cup ErrorsIsCalls \cup WrapCalls
                   \cup CheckNilCalls \cup ParseStatusCalls \cup ParseMethodCalls

NextKernel ==
    \/ DoNewPaymentTwice
    \/ DoIs
    \/ DoErrorsIs
    \/ DoWrap
    \/ DoCheckNil
    \/ DoParseStatus
    \/ DoParseMethod

SpecKernel == InitKernel /\ [][NextKernel]_vars

\* the Payment operations next to a caller of Must
InitMust ==
    /\ p = NilPtr
    /\ clock = 1
    /\ last = [op |-> "none", args |-> NoArgs, pre |-> NilPtr, err |-> NilErr,
               emitted |-> <<>>, reads |-> <<>>, monotone |-> TRUE,
               panicked |-> FALSE]
    /\ events = <<>>
    /\ okOps = <<>>
    /\ oi = NilPtr
    /\ callers = [c \in Callers |-> Idle]
    /\ call \in MustCalls \cup MethodCalls

NextMust ==
    \/ Next
    \/ DoMust
    \/ DoMethod

SpecMust == InitMust /\ [][NextMust]_vars

----------------------------------------------------------------------------
(* The OrderItem state machine: one action per exported operation *)

\* "" and "p1"
ProductIDs == {Str_empty, <<"p", "1">>}

\* "   " and "N1"
ProductNames == {Str_spaces, <<"N", "1">>}

\* -1.0, 0, 2.0 and 12.50
UnitPrices == {-2, 0, 4, 25}

Quantities == {-1, 0, 1, 3, MaxInt}

\* -1.0, 3.0 and 13.50
Discounts == {-2, 6, 27}

Units == {0, 1, MaxInt}

\* the items Equals is given: nil, and struct literals with the ID GenerateID
\* hands out or another one
OtherItems ==
    {NilPtr} \cup
    {Ptr([ID |-> id, ProductID |-> <<"p", "1">>, ProductName |-> <<"N", "1">>,
          UnitPrice |-> up, Quantity |-> q, DiscountApplied |-> 0,
          TotalPrice |-> up * q, CreatedAt |-> 1, UpdatedAt |-> NilPtr]) :
        id \in {GenerateID, "id-2"}, up \in {4}, q \in {1, 3}}

NoItemArgs ==
    [productID |-> <<>>, productName |-> <<>>, unitPrice |-> 0, quantity |-> 0,
     discount |-> 0, units |-> 0, value |-> 0, other |-> NilPtr]

\* what every OrderItem call leaves behind, given its result record r
ReturnedItem(op, args, r) ==
    /\ last' = [op |-> op, args |-> args, pre |-> oi, err |-> r.err,
                emitted |-> <<>>, reads |-> r.reads,
                monotone |-> last.monotone /\ Monotone(clock, r.reads),
                panicked |-> FALSE]
    /\ clock' = IF r.reads = <<>> THEN clock ELSE r.reads[Len(r.reads)]
    /\ okOps' = IF r.err = NilErr THEN Append(okOps, [op |-> op, args |-> args]) ELSE okOps
    /\ UNCHANGED <<p, events, call, callers>>

DoNewOrderItem ==
    /\ oi = NilPtr
    /\ Len(okOps) < MaxItemOk
    /\ \E productID \in ProductIDs, productName \in ProductNames,
          unitPrice \in UnitPrices, quantity \in Quantities, now \in Now :
          LET r == NewOrderItem(productID, productName, unitPrice, quantity, now)
          IN  /\ oi' = r.item
              /\ ReturnedItem("NewOrderItem",
                              [NoItemArgs EXCEPT !.productID = productID,
                                                 !.productName = productName,
                                                 !.unitPrice = unitPrice,
                                                 !.quantity = quantity], r)

DoApplyDiscount ==
    /\ oi # NilPtr
    /\ Len(okOps) < MaxItemOk
    /\ \E discount \in Discounts, timestamp \in Now :
          LET r == ApplyDiscount(Deref(oi), discount, timestamp)
          IN  /\ oi' = Ptr(r.item)
              /\ ReturnedItem("ApplyDiscount", [NoItemArgs EXCEPT !.discount = discount], r)

DoAddUnits ==
    /\ oi # NilPtr
    /\ Len(okOps) < MaxItemOk
    /\ \E units \in Units, timestamp \in Now :
          LET r == AddUnits(Deref(oi), units, timestamp)
          IN  /\ oi' = Ptr(r.item)
              /\ ReturnedItem("AddUnits", [NoItemArgs EXCEPT !.units = units], r)

DoRemoveUnits ==
    /\ oi # NilPtr
    /\ Len(okOps) < MaxItemOk
    /\ \E units \in Units, timestamp \in Now :
          LET r == RemoveUnits(Deref(oi), units, timestamp)
          IN  /\ oi' = Ptr(r.item)
              /\ ReturnedItem("RemoveUnits", [NoItemArgs EXCEPT !.units = units], r)

DoUpdateUnitPrice ==
    /\ oi # NilPtr
    /\ Len(okOps) < MaxItemOk
    /\ \E value \in UnitPrices, timestamp \in Now :
          LET r == UpdateUnitPrice(Deref(oi), value, timestamp)
          IN  /\ oi' = Ptr(r.item)
              /\ ReturnedItem("UpdateUnitPrice", [NoItemArgs EXCEPT !.value = value], r)

\* oi.Equals(other), and with it other.Equals(oi) and oi.Equals(oi).  out and
\* self hold the bools the calls on oi return; back holds the outcome of the
\* call on other, which panics when other is nil
DoEquals ==
    /\ oi # NilPtr
    /\ Len(okOps) < MaxItemOk
    /\ \E other \in OtherItems :
          /\ last' = [op |-> "Equals", args |-> [NoItemArgs EXCEPT !.other = other],
                      pre |-> oi, err |-> NilErr, emitted |-> <<>>, reads |-> <<>>,
                      monotone |-> last.monotone,
                      panicked |-> OrderItem_Equals(oi, other).panicked,
                      out |-> OrderItem_Equals(oi, other).value,
                      back |-> OrderItem_Equals(other, oi),
                      self |-> OrderItem_Equals(oi, oi).value]
          /\ UNCHANGED <<p, clock, events, okOps, call, oi, callers>>

NextItem ==
    \/ DoNewOrderItem
    \/ DoApplyDiscount
    \/ DoAddUnits
    \/ DoRemoveUnits
    \/ DoUpdateUnitPrice
    \/ DoEquals

SpecItem == Init /\ [][NextItem]_vars

----------------------------------------------------------------------------
(* Vocabulary of the properties *)

Pay == Deref(p)

Pre == Deref(last.pre)

\* err matches the sentinel the way a caller tests it: errors.Is(err, sentinel)
Reports(err, sentinel) == errorsIs(err, sentinel)

\* blank: empty, or white space only
IsBlank(s) == \A i \in 1..Len(s) : s[i] \in WhiteSpace

Terminal == {StatusAuthorized, StatusRefused}

\* the successful calls that returned before the last call was made
PriorOk ==
    IF last.op # "none" /\ last.err = NilErr
    THEN SubSeq(okOps, 1, Len(okOps) - 1)
    ELSE okOps

OkIn(history, ops) == {i \in 1..Len(history) : history[i].op \in ops}

----------------------------------------------------------------------------
(* Properties of the Payment state machine *)

\* C1: a Payment starts Pending; no call changes Status except from Pending to
\* Authorized or Refused, so Authorized and Refused are terminal, at most one
\* transition ever succeeds, and Refunded and Cancelled are never reached.
C1_StatusLifecycle ==
    /\ (last.op = "NewPayment" /\ p # NilPtr) => Pay.Status = StatusPending
    /\ p # NilPtr => Pay.Status \in {StatusPending, StatusAuthorized, StatusRefused}
    /\ last.pre # NilPtr =>
          /\ p # NilPtr
          /\ Pre.Status # Pay.Status =>
                 Pre.Status = StatusPending /\ Pay.Status \in Terminal
    /\ Cardinality(OkIn(okOps, Transitions)) <= 1

\* a call was made on a payment that was already Authorized or Refused
C1_Witness ==
    /\ last.op \in Mutations
    /\ last.pre # NilPtr
    /\ Pre.Status \in Terminal

\* C2: PaidAt is set if and only if Status is Authorized.
C2_PaidAtIffAuthorized ==
    p # NilPtr => ((Pay.PaidAt # NilPtr) <=> (Pay.Status = StatusAuthorized))

C2_Witness ==
    /\ p # NilPtr
    /\ Pay.Status = StatusAuthorized
    /\ Pay.PaidAt # NilPtr

\* C3: ConfirmPayment or RefusePayment on a Pending payment before any successful
\* DefineTransactionCode fails with TRANSACTION_CODE_NOT_DEFINED and leaves the
\* payment Pending; so a successful transition comes after a successful
\* DefineTransactionCode, and a terminal Status implies a TransactionCode.
C3_CodeBeforeTransition ==
    /\ ( /\ last.op \in Transitions
         /\ Pre.Status = StatusPending
         /\ OkIn(PriorOk, {"DefineTransactionCode"}) = {} )
       => /\ Reports(last.err, ErrTransactionCodeNotDefined)
          /\ Pay.Status = StatusPending
    /\ \A i \in OkIn(okOps, Transitions) :
          \E j \in OkIn(okOps, {"DefineTransactionCode"}) : j < i
    /\ (p # NilPtr /\ Pay.Status \in Terminal) => Pay.TransactionCode # NilPtr

\* a transition was refused for want of a transaction code
C3_Witness ==
    /\ last.op \in Transitions
    /\ Pre.Status = StatusPending
    /\ Pre.TransactionCode = NilPtr
    /\ last.err # NilErr

\* C4: TransactionCode is write-once: once a DefineTransactionCode(c1) has
\* succeeded, every later DefineTransactionCode fails with
\* TRANSACTION_CODE_ALREADY_DEFINED, and TransactionCode stays c1 under every call.
C4_TransactionCodeWriteOnce ==
    /\ \A i \in OkIn(okOps, {"DefineTransactionCode"}) :
          /\ p # NilPtr
          /\ Pay.TransactionCode = Ptr(okOps[i].args.code)
    /\ (last.op = "DefineTransactionCode"
            /\ OkIn(PriorOk, {"DefineTransactionCode"}) # {})
       => /\ Reports(last.err, ErrTransactionCodeAlreadyDefined)
          /\ Pay.TransactionCode = Pre.TransactionCode
    /\ (last.op \in Transitions) => Pay.TransactionCode = Pre.TransactionCode

\* a second, valid and different, code was offered
C4_Witness ==
    /\ last.op = "DefineTransactionCode"
    /\ Pre.TransactionCode # NilPtr
    /\ ~IsBlank(last.args.code)
    /\ Ptr(last.args.code) # Pre.TransactionCode

\* C5: a call that returns an error leaves every field of the Payment as it was
\* and constructs no event; a failed NewPayment returns no Payment.
C5_AllOrNothing ==
    last.err # NilErr =>
        /\ p = last.pre
        /\ last.emitted = <<>>
        /\ last.op = "NewPayment" => p = NilPtr

\* a failed call on a payment that some earlier call had changed
C5_Witness ==
    /\ last.op \in Mutations
    /\ last.err # NilErr
    /\ Pay.UpdatedAt # NilPtr

\* the sentinels of the Payment aggregate
Sentinels ==
    {ErrInvalidOrderID, ErrInvalidPaymentAmount, ErrInvalidTransactionCode,
     ErrTransactionCodeAlreadyDefined, ErrCannotDefineTransactionCodeAfterCompletion,
     ErrPaymentNotPending, ErrTransactionCodeNotDefined}

\* the sentinels err matches
Reported(err) == {e \in Sentinels : Reports(err, e)}

\* C6: the guards of one call are all evaluated and the joined error is exact:
\* the error matches a failure kind if and only if that kind's precondition is
\* violated (DefineTransactionCode: AFTER_COMPLETION iff not Pending,
\* INVALID_TRANSACTION_CODE iff the code is blank, ALREADY_DEFINED iff a code is
\* present; ConfirmPayment and RefusePayment: NOT_PENDING iff not Pending,
\* TRANSACTION_CODE_NOT_DEFINED iff no code is present), and the call succeeds
\* if and only if none is violated.
C6_JoinedErrorExact ==
    /\ last.op = "DefineTransactionCode" =>
          /\ Reported(last.err) =
                {e \in Sentinels :
                    \/ e = ErrCannotDefineTransactionCodeAfterCompletion
                          /\ Pre.Status # StatusPending
                    \/ e = ErrInvalidTransactionCode /\ IsBlank(last.args.code)
                    \/ e = ErrTransactionCodeAlreadyDefined
                          /\ Pre.TransactionCode # NilPtr}
          /\ (last.err = NilErr) <=>
                (/\ Pre.Status = StatusPending
                 /\ ~IsBlank(last.args.code)
                 /\ Pre.TransactionCode = NilPtr)
    /\ last.op \in Transitions =>
          /\ Reported(last.err) =
                {e \in Sentinels :
                    \/ e = ErrPaymentNotPending /\ Pre.Status # StatusPending
                    \/ e = ErrTransactionCodeNotDefined
                          /\ Pre.TransactionCode = NilPtr}
          /\ (last.err = NilErr) <=>
                (Pre.Status = StatusPending /\ Pre.TransactionCode # NilPtr)

\* one call violated all three preconditions of DefineTransactionCode
C6_Witness ==
    /\ last.op = "DefineTransactionCode"
    /\ Pre.Status # StatusPending
    /\ IsBlank(last.args.code)
    /\ Pre.TransactionCode # NilPtr

\* C7: ConfirmPayment on a Pending payment with a TransactionCode succeeds, sets
\* Status to Authorized, PaidAt to the time it read and UpdatedAt; it succeeds
\* at most once, and every later ConfirmPayment or RefusePayment fails with
\* NOT_PENDING.
C7_ConfirmOnce ==
    /\ ( /\ last.op = "ConfirmPayment"
         /\ Pre.Status = StatusPending
         /\ Pre.TransactionCode # NilPtr )
       => /\ last.err = NilErr
          /\ Pay.Status = StatusAuthorized
          /\ Len(last.reads) = 2
          /\ Pay.PaidAt = Ptr(last.reads[1])
          /\ Pay.UpdatedAt = Ptr(last.reads[2])
    /\ Cardinality(OkIn(okOps, {"ConfirmPayment"})) <= 1
    /\ (last.op \in Transitions /\ OkIn(PriorOk, {"ConfirmPayment"}) # {})
       => /\ Reports(last.err, ErrPaymentNotPending)
          /\ p = last.pre

\* a transition was attempted after a ConfirmPayment had succeeded
C7_Witness ==
    /\ last.op \in Transitions
    /\ OkIn(PriorOk, {"ConfirmPayment"}) # {}
    /\ Pay.Status = StatusAuthorized
    /\ Pay.PaidAt # NilPtr

\* C8: RefusePayment on a Pending payment with a TransactionCode succeeds, sets
\* Status to Refused, leaves PaidAt absent and sets UpdatedAt; it succeeds at most
\* once, and every later RefusePayment or ConfirmPayment fails with NOT_PENDING.
C8_RefuseOnce ==
    /\ ( /\ last.op = "RefusePayment"
         /\ Pre.Status = StatusPending
         /\ Pre.TransactionCode # NilPtr )
       => /\ last.err = NilErr
          /\ Pay.Status = StatusRefused
          /\ Pay.PaidAt = NilPtr
          /\ Len(last.reads) = 1
          /\ Pay.UpdatedAt = Ptr(last.reads[1])
    /\ Cardinality(OkIn(okOps, {"RefusePayment"})) <= 1
    /\ (last.op \in Transitions /\ OkIn(PriorOk, {"RefusePayment"}) # {})
       => /\ Reports(last.err, ErrPaymentNotPending)
          /\ p = last.pre

\* a transition was attempted after a RefusePayment had succeeded
C8_Witness ==
    /\ last.op \in Transitions
    /\ OkIn(PriorOk, {"RefusePayment"}) # {}
    /\ Pay.Status = StatusRefused
    /\ Pay.PaidAt = NilPtr

\* C9: after a successful ConfirmPayment or RefusePayment, every
\* DefineTransactionCode call, whatever its argument, fails with
\* TRANSACTION_CODE_AFTER_COMPLETION and changes nothing.
C9_NoCodeAfterCompletion ==
    (last.op = "DefineTransactionCode" /\ OkIn(PriorOk, Transitions) # {})
    => /\ Reports(last.err, ErrCannotDefineTransactionCodeAfterCompletion)
       /\ p = last.pre

\* a valid code was offered to a completed payment
C9_Witness ==
    /\ last.op = "DefineTransactionCode"
    /\ OkIn(PriorOk, Transitions) # {}
    /\ ~IsBlank(last.args.code)

\* C10: for every non-blank orderID, every amount > 0 and every method, NewPayment
\* succeeds and returns a Payment with that OrderID, Amount and Method, Status
\* Pending, and TransactionCode, PaidAt and UpdatedAt absent.
C10_NewPaymentValid ==
    ( /\ last.op = "NewPayment"
      /\ ~IsBlank(last.args.orderID)
      /\ last.args.amount > 0 )
    => /\ last.err = NilErr
       /\ p # NilPtr
       /\ Pay.OrderID = last.args.orderID
       /\ Pay.Amount = last.args.amount
       /\ Pay.Method = last.args.method
       /\ Pay.Status = StatusPending
       /\ Pay.TransactionCode = NilPtr
       /\ Pay.PaidAt = NilPtr
       /\ Pay.UpdatedAt = NilPtr

\* a payment was created from an order ID padded with white space
C10_Witness ==
    /\ last.op = "NewPayment"
    /\ last.err = NilErr
    /\ last.args.orderID = Str_order_2
    /\ last.args.amount = 1
    /\ last.args.method = MethodBancSlip


\* C11: NewPayment fails, returning no Payment, if and only if orderID is blank
\* or amount <= 0; its error matches INVALID_ORDER_ID iff orderID is blank and
\* INVALID_AMOUNT iff amount <= 0 (zero fails), so both when both are invalid.
C11_NewPaymentInvalid ==
    last.op = "NewPayment" =>
        /\ (last.err # NilErr) <=> (IsBlank(last.args.orderID) \/ last.args.amount <= 0)
        /\ (last.err # NilErr) <=> (p = NilPtr)
        /\ Reported(last.err) =
              {e \in Sentinels :
                  \/ e = ErrInvalidOrderID /\ IsBlank(last.args.orderID)
                  \/ e = ErrInvalidPaymentAmount /\ last.args.amount <= 0}

\* NewPayment was given a white-space order ID and a zero amount
C11_Witness ==
    /\ last.op = "NewPayment"
    /\ last.args.orderID = Str_spaces
    /\ last.args.amount = 0
    /\ Reported(last.err) = {ErrInvalidOrderID, ErrInvalidPaymentAmount}


\* the event carries the data of the payment as the call left it, and the time
\* of its construction
Snapshot(event, type) ==
    /\ event.type = type
    /\ event.PaymentID = Pay.ID
    /\ event.OrderID = Pay.OrderID
    /\ event.Amount = Pay.Amount
    /\ event.TransactionCode = Pay.TransactionCode
    /\ \E i \in 1..Len(last.reads) : event.DateOccurred = last.reads[i]

\* C12: a successful ConfirmPayment produces one Approved event whose PaymentID,
\* OrderID, Amount and TransactionCode are the Payment's and whose OccurredAt is
\* set at construction; a successful RefusePayment likewise produces a Refused
\* event carrying the Payment's data.
C12_EventCarriesPayment ==
    /\ (last.op = "ConfirmPayment" /\ last.err = NilErr) =>
          /\ Len(last.emitted) = 1
          /\ Snapshot(last.emitted[1], "ApprovedEvent")
    /\ (last.op = "RefusePayment" /\ last.err = NilErr) =>
          /\ Len(last.emitted) = 1
          /\ Snapshot(last.emitted[1], "RefusedEvent")


\* C13: UpdatedAt is absent from creation until the first successful mutation;
\* after every successful DefineTransactionCode, ConfirmPayment or RefusePayment
\* it holds the clock value read by that call's updateTimestamp, so as long as
\* no reading of the clock was lower than the one before it, it never moves
\* backwards; a failed call leaves it as it was.
C13_UpdatedAtRefreshed ==
    /\ (p # NilPtr /\ OkIn(okOps, Mutations) = {}) => Pay.UpdatedAt = NilPtr
    /\ (last.op \in Mutations /\ last.err = NilErr) =>
          /\ last.reads # <<>>
          /\ Pay.UpdatedAt = Ptr(last.reads[Len(last.reads)])
          /\ (last.monotone /\ Pre.UpdatedAt # NilPtr) =>
                Deref(Pre.UpdatedAt) <= Deref(Pay.UpdatedAt)
    /\ (last.op \in Mutations /\ last.err # NilErr) => Pay.UpdatedAt = Pre.UpdatedAt

\* the clock never went back, and a second successful mutation moved UpdatedAt
\* forward
C13_Witness ==
    /\ last.op \in Transitions
    /\ last.err = NilErr
    /\ last.monotone
    /\ Pre.UpdatedAt # NilPtr
    /\ Deref(Pre.UpdatedAt) < Deref(Pay.UpdatedAt)


\* C15: no Payment operation, successful or failed, changes ID, OrderID, Amount
\* or Method; DefineTransactionCode also leaves Status and PaidAt unchanged, and
\* ConfirmPayment and RefusePayment leave TransactionCode unchanged.
C15_Frame ==
    /\ last.op \in Mutations =>
          /\ Pay.ID = Pre.ID
          /\ Pay.OrderID = Pre.OrderID
          /\ Pay.Amount = Pre.Amount
          /\ Pay.Method = Pre.Method
    /\ last.op = "DefineTransactionCode" =>
          /\ Pay.Status = Pre.Status
          /\ Pay.PaidAt = Pre.PaidAt
    /\ last.op \in Transitions => Pay.TransactionCode = Pre.TransactionCode

\* a successful DefineTransactionCode on a payment created with a padded order ID
C15_Witness ==
    /\ last.op = "DefineTransactionCode"
    /\ last.err = NilErr
    /\ Pay.OrderID = Str_order_2
    /\ Pay.TransactionCode # Pre.TransactionCode


\* C14: TransactionCode is present if and only if DefineTransactionCode has
\* succeeded on the Payment; it succeeded once only, and the code is the
\* argument of that call, which was not blank.
C14_CodeIffDefined ==
    p # NilPtr =>
        /\ (Pay.TransactionCode # NilPtr) <=> (OkIn(okOps, {"DefineTransactionCode"}) # {})
        /\ Cardinality(OkIn(okOps, {"DefineTransactionCode"})) <= 1
        /\ \A i \in OkIn(okOps, {"DefineTransactionCode"}) :
              /\ Pay.TransactionCode = Ptr(okOps[i].args.code)
              /\ ~IsBlank(okOps[i].args.code)

\* the code is still the defined one after the payment was completed and a
\* further code was offered
C14_Witness ==
    /\ last.op = "DefineTransactionCode"
    /\ last.err # NilErr
    /\ Pre.Status \in Terminal
    /\ Pay.TransactionCode \in {Ptr(Str_txn_2), Ptr(LocalCode)}


----------------------------------------------------------------------------
(* Properties of the kernel functions *)

\* C16: every Payment created by NewPayment has a non-empty ID, and two
\* Payments created by separate NewPayment calls have different IDs.
C16_UniqueIDs ==
    ( /\ call.fn = "NewPayment"
      /\ call.done
      /\ call.out[1].err = NilErr
      /\ call.out[2].err = NilErr )
    => /\ Deref(call.out[1].pay).ID # ""
       /\ Deref(call.out[2].pay).ID # ""
       /\ Deref(call.out[1].pay).ID # Deref(call.out[2].pay).ID

\* the DomainErrors of err's tree, in the order errors.Is and errors.As walk it
\* (depth first, an error before what it unwraps to)
RECURSIVE DomainErrorsOf(_)
RECURSIVE DomainErrorsOfList(_)
DomainErrorsOf(err) ==
    CASE err.kind = "DomainError" -> <<err>> \o DomainErrorsOf(err.Err)
      [] err.kind = "joinError"   -> DomainErrorsOfList(err.errs)
      [] err.kind = "wrapError"   -> DomainErrorsOf(err.Err)
      [] OTHER                    -> <<>>

DomainErrorsOfList(errs) ==
    IF errs = <<>> THEN <<>>
    ELSE DomainErrorsOf(Head(errs)) \o DomainErrorsOfList(Tail(errs))

\* C17 as claimed: e.Is(target) is true if and only if target is, or wraps
\* anywhere in its unwrap chain, a DomainError with e's code.
C17_IsAnyCodeInChain ==
    (call.fn = "Is" /\ call.done) =>
        (call.out <=>
            \E i \in 1..Len(DomainErrorsOf(call.target)) :
                DomainErrorsOf(call.target)[i].Code = call.e.Code)

\* C17: e.Is(target) is true if and only if the first DomainError of target's
\* unwrap traversal (target itself when it is a DomainError) has e's code,
\* whatever its message, its cause and its identity; it is false for a target
\* that contains no DomainError.
C17_IsFirstCodeInChain ==
    (call.fn = "Is" /\ call.done) =>
        (call.out <=>
            /\ DomainErrorsOf(call.target) # <<>>
            /\ DomainErrorsOf(call.target)[1].Code = call.e.Code)

\* Is answered true for a target that is no DomainError but wraps one with the
\* receiver's code and another message
C17_Witness ==
    /\ call.fn = "Is"
    /\ call.done
    /\ call.out
    /\ call.target.kind # "DomainError"
    /\ DomainErrorsOf(call.target)[1].Message # call.e.Message

\* C18: for every sentinel s and cause c, errors.Is(s.Wrap(c), s) is true, also
\* when s.Wrap(c) is itself wrapped or joined to any depth; unwrapping
\* s.Wrap(c) yields c.
C18_WrapRoundTrip ==
    /\ (call.fn = "errors.Is" /\ call.done) => call.out
    /\ (call.fn = "Wrap" /\ call.done) => call.unwrapped = call.cause

\* the wrapped sentinel was found under two wrappers, the outer a DomainError
\* with another code
C18_Witness ==
    /\ call.fn = "errors.Is"
    /\ call.done
    /\ Len(call.ctx) = 2
    /\ call.err.kind = "DomainError"
    /\ call.err.Code # call.s.Code
    /\ call.cause = PlainErr

\* C19: e.Wrap(cause) returns a DomainError with e's code and message and Err =
\* cause, and does not change e: after any number of Wrap calls the sentinel
\* has the code and message it had and a nil cause.
C19_WrapCopies ==
    (call.fn = "Wrap" /\ call.done) =>
        /\ call.out.kind = "DomainError"
        /\ call.out.Code = call.orig.Code
        /\ call.out.Message = call.orig.Message
        /\ call.out.Err = call.cause
        /\ call.sentinel = call.orig
        /\ call.sentinel.Err = NilErr

\* a second Wrap on the same sentinel, with a cause
C19_Witness ==
    /\ call.fn = "Wrap"
    /\ call.n = 2
    /\ call.cause # NilErr

\* C20: CheckNotNil and CheckNil are inverses: for every value and error,
\* exactly one of them returns the error and the other nil; the untyped nil and
\* a typed nil pointer are absent (CheckNotNil fails), a non-nil pointer is
\* present (CheckNil fails).
C20_NilChecksInverse ==
    (call.fn = "CheckNil" /\ call.done) =>
        /\ \/ call.notNil = call.err /\ call.nil = NilErr
           \/ call.notNil = NilErr /\ call.nil = call.err
        /\ (call.value = UntypedNil \/ call.value = AnyOf("Ptr", NilPtr))
              => call.notNil = call.err
        /\ (call.value.kind = "Ptr" /\ call.value.ref # NilPtr)
              => call.nil = call.err

\* the two checks were applied to a typed nil pointer
C20_Witness ==
    /\ call.fn = "CheckNil"
    /\ call.done
    /\ call.value = AnyOf("Ptr", NilPtr)
    /\ call.err = ErrTransactionCodeNotDefined
    /\ call.notNil = call.err


----------------------------------------------------------------------------
(* Panics *)

\* whether the last call was one of the four operations of Payment
PaymentOps == {"NewPayment"} \cup Mutations

\* C21 as stated: Must(x, err) returns x when err is nil and panics (with err)
\* when err is non-nil, and nothing else panics: no call of NewPayment,
\* DefineTransactionCode, ConfirmPayment or RefusePayment does, whatever it is
\* given.
C21_OnlyMustPanics ==
    /\ (call.fn = "Must" /\ call.done) =>
          /\ call.out.panicked <=> call.err # NilErr
          /\ call.err = NilErr => call.out.value = call.x
          /\ call.err # NilErr => call.out.value = call.err
    /\ last.op \in PaymentOps => ~last.panicked
    /\ (call.fn \in Mutations /\ call.done) => ~call.out.panicked

\* C21: Must(x, err) returns x when err is nil and panics (with err) when err is
\* non-nil.  No call of NewPayment panics, and a call of DefineTransactionCode,
\* ConfirmPayment or RefusePayment panics if and only if its receiver is the nil
\* pointer, with a nil dereference; on a Payment every failure is an error
\* value, in any reachable state and for any argument.
C21_PanicsOnlyOnNilReceiver ==
    /\ (call.fn = "Must" /\ call.done) =>
          /\ call.out.panicked <=> call.err # NilErr
          /\ call.err = NilErr => call.out.value = call.x
          /\ call.err # NilErr => call.out.value = call.err
    /\ last.op \in PaymentOps => ~last.panicked
    /\ (call.fn \in Mutations /\ call.done) =>
          /\ call.out.panicked <=> call.recv = NilPtr
          /\ call.out.panicked => call.out.value = NilDereference
          /\ (~call.out.panicked /\ call.fn \in Transitions) =>
                Reported(call.out.value) = {ErrTransactionCodeNotDefined}
          /\ (~call.out.panicked /\ call.fn = "DefineTransactionCode") =>
                call.out.value = NilErr

\* a transition called on a Payment without a transaction code has returned its
\* error, and so has the last transition on the Payment of the state machine
C21_Witness ==
    /\ call.fn \in Transitions
    /\ call.done
    /\ call.recv # NilPtr
    /\ ~call.out.panicked
    /\ last.op \in Transitions
    /\ ~last.panicked
    /\ Reports(last.err, ErrTransactionCodeNotDefined)


----------------------------------------------------------------------------
(* Properties of OrderItem *)

Item == Deref(oi)

ItemMutations == {"ApplyDiscount", "AddUnits", "RemoveUnits", "UpdateUnitPrice"}

\* v halves are a float64 value: no rounding changes them
IsFloat64(v) == RoundFloat64(v) = v

\* C22: oi.Equals(other) is true if and only if other is non-nil and has oi's
\* ID, whatever the other fields hold; it is reflexive and symmetric, and false
\* for nil.
C22_EqualsByID ==
    last.op = "Equals" =>
        /\ last.out <=> /\ last.args.other # NilPtr
                        /\ Deref(last.args.other).ID = Pre.ID
        /\ ~last.panicked
        /\ last.self
        /\ last.args.other # NilPtr =>
              /\ ~last.back.panicked
              /\ last.back.value <=> last.out
        /\ last.args.other = NilPtr => ~last.out

\* Equals was true for an item that differs in price, quantity, total and
\* timestamps
C22_Witness ==
    /\ last.op = "Equals"
    /\ last.out
    /\ Deref(last.args.other).UnitPrice # Pre.UnitPrice
    /\ Deref(last.args.other).Quantity # Pre.Quantity
    /\ Pre.UpdatedAt # NilPtr

\* C23: after NewOrderItem and after every ApplyDiscount, AddUnits, RemoveUnits
\* and UpdateUnitPrice call, successful or failed, TotalPrice = (UnitPrice x
\* Quantity) - DiscountApplied, the float64 this expression yields from the
\* fields as they are; it is the exact number wherever the quantity, the product
\* and the difference are float64 values.
C23_TotalPriceDerived ==
    oi # NilPtr =>
        /\ Item.TotalPrice =
              SubFloat64(MulFloat64(Item.UnitPrice, ToFloat64(Item.Quantity)),
                         Item.DiscountApplied)
        /\ (/\ IsFloat64(2 * Item.Quantity)
            /\ IsFloat64(Item.UnitPrice * Item.Quantity)
            /\ IsFloat64((Item.UnitPrice * Item.Quantity) - Item.DiscountApplied)) =>
              Item.TotalPrice = (Item.UnitPrice * Item.Quantity) - Item.DiscountApplied

\* units were removed from an item that has a discount and a price with a
\* fraction
C23_Witness ==
    /\ last.op = "RemoveUnits"
    /\ last.err = NilErr
    /\ Item.DiscountApplied > 0
    /\ Item.UnitPrice % 2 = 1
    /\ Item.TotalPrice = (Item.UnitPrice * Item.Quantity) - Item.DiscountApplied

\* C24: when ApplyDiscount, AddUnits, RemoveUnits or UpdateUnitPrice returns an
\* error, Quantity, UnitPrice, DiscountApplied and TotalPrice keep their values
\* and UpdatedAt is neither set nor refreshed.
C24_FailedMutationNoChange ==
    (last.op \in ItemMutations /\ last.err # NilErr) =>
        /\ Item.Quantity = Pre.Quantity
        /\ Item.UnitPrice = Pre.UnitPrice
        /\ Item.DiscountApplied = Pre.DiscountApplied
        /\ Item.TotalPrice = Pre.TotalPrice
        /\ Item.UpdatedAt = Pre.UpdatedAt
        /\ last.reads = <<>>

\* a discount above the unit price was refused on an item that had a discount
\* and an UpdatedAt from an earlier mutation
C24_Witness ==
    /\ last.op = "ApplyDiscount"
    /\ Reports(last.err, ErrDiscountExceedsUnitPrice)
    /\ Item.UpdatedAt # NilPtr
    /\ Item.DiscountApplied > 0

\* C25: Quantity is at least 1 in every reachable state of an OrderItem.
C25_QuantityPositive ==
    oi # NilPtr => Item.Quantity >= 1

\* C26: in every reachable state of an OrderItem, 0 <= DiscountApplied <=
\* UnitPrice.
C26_DiscountBound ==
    oi # NilPtr =>
        /\ 0 <= Item.DiscountApplied
        /\ Item.DiscountApplied <= Item.UnitPrice


----------------------------------------------------------------------------
(* Parsing of Status and Method *)

DeclaredStatuses ==
    {StatusPending, StatusAuthorized, StatusRefused, StatusRefunded, StatusCancelled}

DeclaredMethods ==
    {MethodCreditCard, MethodDebitCard, MethodCash, MethodPix, MethodBankTransfer,
     MethodBancSlip}

\* C27: ParseStatus(v) succeeds iff v is in 1..5 and ParseMethod(v) iff v is in
\* 1..6, returning the declared value with code v, whose String is a known name;
\* for any other int they return INVALID_STATUS / INVALID_METHOD with the zero
\* value, whose String is "unknown" and which Equals no declared value.
C27_ParseDeclaredOnly ==
    /\ (call.fn = "ParseStatus" /\ call.done) =>
          /\ call.err = NilErr <=> call.int \in 1..5
          /\ call.err = NilErr =>
                /\ call.out \in DeclaredStatuses
                /\ call.out = call.int
                /\ call.str \in {"pending", "authorized", "refused", "refunded",
                                 "cancelled"}
          /\ call.err # NilErr =>
                /\ Reports(call.err, ErrInvalidPaymentStatus)
                /\ call.out = 0
                /\ call.str = "unknown"
                /\ \A d \in DeclaredStatuses : ~Equals(call.out, d)
    /\ (call.fn = "ParseMethod" /\ call.done) =>
          /\ call.err = NilErr <=> call.int \in 1..6
          /\ call.err = NilErr =>
                /\ call.out \in DeclaredMethods
                /\ call.out = call.int
                /\ call.str \in {"credit_card", "debit_card", "cash", "pix",
                                 "bank_transfer", "banc_slip"}
          /\ call.err # NilErr =>
                /\ Reports(call.err, ErrInvalidPaymentMethod)
                /\ call.out = 0
                /\ call.str = "unknown"
                /\ \A d \in DeclaredMethods : ~Method_Equals(call.out, d)

\* ParseStatus has refused 6, which ParseMethod accepts
C27_Witness ==
    /\ call.fn = "ParseStatus"
    /\ call.done
    /\ call.int = 6
    /\ call.err # NilErr
    /\ call.str = "unknown"


----------------------------------------------------------------------------
(* Domain events over a behaviour *)

\* C28: a successful ConfirmPayment constructs exactly one event, an Approved
\* one, and a successful RefusePayment exactly one Refused event; NewPayment,
\* DefineTransactionCode and every failed call construct none; so at most one
\* event is constructed over the life of a Payment, one per successful terminal
\* transition.  The event is not kept: AddDomainEvent leaves the Payment as it
\* is.
C28_OneEventPerTransition ==
    /\ (last.op = "ConfirmPayment" /\ last.err = NilErr) =>
          /\ Len(last.emitted) = 1
          /\ last.emitted[1].type = "ApprovedEvent"
    /\ (last.op = "RefusePayment" /\ last.err = NilErr) =>
          /\ Len(last.emitted) = 1
          /\ last.emitted[1].type = "RefusedEvent"
    /\ (last.op \notin Transitions \/ last.err # NilErr) => last.emitted = <<>>
    /\ Len(events) <= 1
    /\ Len(events) = Cardinality(OkIn(okOps, Transitions))
    /\ p # NilPtr =>
          /\ \A i \in 1..Len(events) : AddDomainEvent(Pay, events[i]) = Pay
          /\ DOMAIN Pay = {"ID", "OrderID", "Amount", "Method", "Status", "PaidAt",
                           "UpdatedAt", "TransactionCode"}

\* after a refusal constructed its event, a further transition failed and
\* constructed none
C28_Witness ==
    /\ events = <<RefusedEvent>>
    /\ last.op = "ConfirmPayment"
    /\ last.err # NilErr
    /\ last.emitted = <<>>


----------------------------------------------------------------------------
(* Error combinations that reachable states exclude *)

\* C30: in every reachable state the error of ConfirmPayment or RefusePayment
\* reports at most one of NOT_PENDING and TRANSACTION_CODE_NOT_DEFINED, and every
\* DefineTransactionCode call on an Authorized or Refused payment reports both
\* TRANSACTION_CODE_AFTER_COMPLETION and TRANSACTION_CODE_ALREADY_DEFINED, never
\* AFTER_COMPLETION alone.
C30_ErrorPairs ==
    /\ last.op \in Transitions =>
          ~ /\ Reports(last.err, ErrPaymentNotPending)
            /\ Reports(last.err, ErrTransactionCodeNotDefined)
    /\ (last.op = "DefineTransactionCode" /\ Pre.Status \in Terminal) =>
          /\ Reports(last.err, ErrCannotDefineTransactionCodeAfterCompletion)
          /\ Reports(last.err, ErrTransactionCodeAlreadyDefined)
    /\ (/\ last.op = "DefineTransactionCode"
        /\ Reports(last.err, ErrCannotDefineTransactionCodeAfterCompletion)) =>
          Reports(last.err, ErrTransactionCodeAlreadyDefined)

\* a blank code was given to a refused payment: all three failures are reported
C30_Witness ==
    /\ last.op = "DefineTransactionCode"
    /\ Pre.Status = StatusRefused
    /\ Reports(last.err, ErrCannotDefineTransactionCodeAfterCompletion)
    /\ Reports(last.err, ErrTransactionCodeAlreadyDefined)
    /\ Reports(last.err, ErrInvalidTransactionCode)


----------------------------------------------------------------------------
(* Single-writer access *)

\* no call has run while a call of another goroutine was in progress
Atomic == \A c \in Callers : ~callers[c].overlap

SucceededTransitions == {okOps[i].op : i \in OkIn(okOps, Transitions)}

\* C29: Payment is not synchronized.  As long as every call ran on its own, at
\* most one ConfirmPayment or RefusePayment has succeeded, it left what the
\* operation run in one piece leaves, and a Refused payment has no PaidAt; two
\* successful transitions, or Refused with PaidAt set, occur only where calls
\* of two goroutines overlapped (the witness: they do occur).
C29_SingleWriterOnly ==
    /\ Atomic => Cardinality(OkIn(okOps, Transitions)) <= 1
    /\ (Atomic /\ NoneRunning /\ p # NilPtr) =>
          /\ Pay.PaidAt # NilPtr <=> Pay.Status = StatusAuthorized
          /\ (last.op = "ConfirmPayment" /\ last.err = NilErr) =>
                Pay = ConfirmPayment(Pre, last.reads[1], last.reads[2]).pay
          /\ (last.op = "RefusePayment" /\ last.err = NilErr) =>
                Pay = RefusePayment(Pre, last.reads[1]).pay
          /\ (last.op = "DefineTransactionCode" /\ last.err = NilErr) =>
                Pay = DefineTransactionCode(Pre, last.args.code, last.reads[1]).pay
    /\ Cardinality(OkIn(okOps, Transitions)) > 1 => ~Atomic
    /\ (p # NilPtr /\ Pay.Status = StatusRefused /\ Pay.PaidAt # NilPtr) => ~Atomic

\* ConfirmPayment and RefusePayment, interleaved on a Pending payment, have
\* both returned nil, and the payment is Refused with PaidAt set
C29_Witness ==
    /\ p # NilPtr
    /\ \A c \in Callers : callers[c].pc = "done"
    /\ SucceededTransitions = {"ConfirmPayment", "RefusePayment"}
    /\ Pay.Status = StatusRefused
    /\ Pay.PaidAt # NilPtr

====
